---- MODULE Spec2Model ----
(***************************************************************************)
(* Model of zapcloudwatch (cloudwatch.go): the global EntryQueue msgCache, *)
(* PikaCore.Write (field enrichment and push), CloudwatchHook.GetHook      *)
(* (initialisation against the remote log service), the cloudwatchWriter   *)
(* callback it returns, and CloudwatchHook.sendEvent.                      *)
(*                                                                         *)
(* Go strings are sequences of one-character strings, so that fmt.Sprintf  *)
(* and json.Marshal are computed and not assumed.                          *)
(***************************************************************************)
EXTENDS Integers, Sequences, FiniteSets, Bags, TLC

(***************************************************************************)
(* Bounds of the model.                                                    *)
(***************************************************************************)
\* number of PikaCore.Write calls made by the application
MaxWrites == 2
\* number of cloudwatchWriter calls made by the logging framework
MaxCallbacks == 2
\* number of cloudwatchWriter calls when the framework makes them one at a time
MaxSeqCallbacks == 3

\* application threads issuing log calls
Threads == {<<"thread", 1>>, <<"thread", 2>>}
\* goroutines started by `go ch.sendEvent(params)`, one per detached callback
Tasks == {<<"go", i>> : i \in 1..MaxCallbacks}
Procs == Threads \cup Tasks

(***************************************************************************)
(* Levels.  A level is its zapcore name; AllLevels fixes the order.        *)
(***************************************************************************)
AllLevels == <<"debug", "info", "warn", "error", "fatal", "panic">>

\* the nil slice / nil pointer / nil error
Nil == "nil"

\* no process (an unlocked mutex)
NoProc == <<>>

Range(s) == {s[i] : i \in 1..Len(s)}

\* AllLevels[i:] of Go, for the 0-based match position i-1
LevelsFromIndex(i) == SubSeq(AllLevels, i, Len(AllLevels))

\* a threshold that starts one level too high
LevelThresholdAbove(l) ==
    IF \E i \in 1..Len(AllLevels) : AllLevels[i] = l
    THEN LevelsFromIndex(1 + CHOOSE i \in 1..Len(AllLevels) : AllLevels[i] = l)
    ELSE <<>>

LevelThreshold(l) ==
    IF \E i \in 1..Len(AllLevels) : AllLevels[i] = l
    THEN LevelsFromIndex(CHOOSE i \in 1..Len(AllLevels) :
                            /\ AllLevels[i] = l
                            /\ \A j \in 1..(i - 1) : AllLevels[j] # l)
    ELSE <<>>

\* a Levels that takes an empty list for an unset one
LevelsEmptyIsAll(acc) == IF acc = Nil \/ acc = <<>> THEN AllLevels ELSE acc

\* CloudwatchHook.Levels for a hook whose AcceptedLevels field is acc
Levels(acc) == IF acc = Nil THEN AllLevels ELSE acc

\* a level test that looks at AllLevels whatever the hook accepts
isAcceptedLevelAll(acc, level) == \E i \in 1..Len(AllLevels) : AllLevels[i] = level

isAcceptedLevel(acc, level) == \E i \in 1..Len(Levels(acc)) : Levels(acc)[i] = level

(***************************************************************************)
(* Strings and formatting.                                                 *)
(***************************************************************************)
Digits == <<"0", "1", "2", "3", "4", "5", "6", "7", "8", "9">>

RECURSIVE NatToStr(_)
NatToStr(n) == IF n < 10 THEN <<Digits[n + 1]>>
               ELSE NatToStr(n \div 10) \o <<Digits[(n % 10) + 1]>>

\* strconv formatting of an int64 as json.Marshal writes it
IntToStr(n) == IF n < 0 THEN <<"-">> \o NatToStr(-n) ELSE NatToStr(n)

\* byte order of the characters that occur in keys
Alphabet == <<"a", "b", "c", "d", "e", "f", "g", "h", "i", "j", "k", "l", "m",
              "n", "o", "p", "q", "r", "s", "t", "u", "v", "w", "x", "y", "z">>

CharCode(c) == CHOOSE i \in 1..Len(Alphabet) : Alphabet[i] = c

RECURSIVE StrLess(_, _)
StrLess(a, b) ==
    IF Len(b) = 0 THEN FALSE
    ELSE IF Len(a) = 0 THEN TRUE
    ELSE IF a[1] = b[1] THEN StrLess(Tail(a), Tail(b))
    ELSE CharCode(a[1]) < CharCode(b[1])

IsPrefix(p, s) == Len(p) <= Len(s) /\ SubSeq(s, 1, Len(p)) = p

(***************************************************************************)
(* zapcore.Field and the conversion of PikaCore.Write.                     *)
(***************************************************************************)
Field(key, type, integer, string, iface) ==
    [Key |-> key, Type |-> type, Integer |-> integer, String |-> string, Interface |-> iface]

\* the value stored in fieldsMap for one field: a Go interface{} holding a
\* string, an int64, a bool or the field's Interface
ConvertField(f) ==
    CASE f.Type = "StringType" ->
           [kind |-> "string", str |-> f.String, int |-> 0, bool |-> FALSE, iface |-> Nil]
      [] f.Type \in {"Int64Type", "Int32Type", "Uint32Type", "Uint64Type"} ->
           [kind |-> "int64", str |-> <<>>, int |-> f.Integer, bool |-> FALSE, iface |-> Nil]
      [] f.Type = "BoolType" ->
           [kind |-> "bool", str |-> <<>>, int |-> 0, bool |-> (f.Integer = 1), iface |-> Nil]
      [] OTHER ->
           [kind |-> "interface", str |-> <<>>, int |-> 0, bool |-> FALSE, iface |-> f.Interface]

\* fieldsMap after the loop over the first n fields: a later field overwrites
RECURSIVE FieldsMap(_, _)
FieldsMap(fields, n) ==
    IF n = 0 THEN [k \in {} |-> 0]
    ELSE LET prev == FieldsMap(fields, n - 1)
             f == fields[n]
         IN [k \in (DOMAIN prev) \cup {f.Key} |->
                IF k = f.Key THEN ConvertField(f) ELSE prev[k]]

\* Interface values json.Marshal rejects (channels, funcs, complex numbers)
Unmarshalable == {"chan"}

MarshalValue(v) ==
    CASE v.kind = "string" -> <<"\"">> \o v.str \o <<"\"">>
      [] v.kind = "int64" -> IntToStr(v.int)
      [] v.kind = "bool" -> IF v.bool THEN <<"t", "r", "u", "e">>
                            ELSE <<"f", "a", "l", "s", "e">>
      [] v.kind = "interface" /\ v.iface = "struct{}{}" -> <<"{", "}">>
      [] OTHER -> <<"n", "u", "l", "l">>

\* the keys of m in the order json.Marshal writes them (sorted)
RECURSIVE SortedKeys(_)
SortedKeys(keys) ==
    IF keys = {} THEN <<>>
    ELSE LET least == CHOOSE k \in keys : \A o \in keys \ {k} : StrLess(k, o)
         IN <<least>> \o SortedKeys(keys \ {least})

RECURSIVE MarshalMembers(_, _)
MarshalMembers(m, keys) ==
    IF Len(keys) = 0 THEN <<>>
    ELSE <<"\"">> \o keys[1] \o <<"\"", ":">> \o MarshalValue(m[keys[1]])
         \o (IF Len(keys) > 1 THEN <<",">> ELSE <<>>)
         \o MarshalMembers(m, Tail(keys))

\* json.Marshal(fieldsMap): the bytes and the error
Marshal(m) ==
    IF \E k \in DOMAIN m : m[k].kind = "interface" /\ m[k].iface \in Unmarshalable
    THEN [err |-> TRUE, json |-> <<>>]
    ELSE [err |-> FALSE,
          json |-> <<"{">> \o MarshalMembers(m, SortedKeys(DOMAIN m)) \o <<"}">>]

\* fmt.Sprintf("%s %s", entry.Message, string(fieldsJson))
EnrichMessage(message, json) == message \o <<" ">> \o json

\* an event message without the logger name
EventMessageBare(e) == e.Message

\* fmt.Sprintf("[%s] %s", e.LoggerName, e.Message)
EventMessage(e) == <<"[">> \o e.LoggerName \o <<"]", " ">> \o e.Message

(***************************************************************************)
(* Values.                                                                 *)
(***************************************************************************)
\* a nil *string (no sequence token)
NoToken == <<>>

\* the token the remote service hands out with its n-th successful append
\* (n >= 1), and the token of a stream that existed before (n = 0)
Token(n) == <<n>>

GroupName == <<"g">>
StreamName == <<"s">>

Entry(level, logger, message) ==
    [Level |-> level, LoggerName |-> logger, Message |-> message]

NoEntry == Entry(Nil, <<>>, <<>>)
NoElem == [id |-> 0, Value |-> NoEntry]
NoParams == [LogEvents |-> <<>>, LogGroupName |-> <<>>, LogStreamName |-> <<>>,
             SequenceToken |-> NoToken]
NoResp == [err |-> Nil, NextSequenceToken |-> NoToken]
NoRet == [op |-> Nil, err |-> Nil]
\* the empty map (make(map[string]interface{}))
NoFieldsMap == [k \in {} |-> 0]
NoLocals == [e |-> NoEntry, fields |-> <<>>, fieldsMap |-> NoFieldsMap, elem |-> NoElem,
             params |-> NoParams, resp |-> NoResp]

\* inputs of the log calls
EntryLevels == {"debug", "info"}
LoggerNames == {<<"s", "v", "c">>}
Messages == {<<"s", "t", "a", "r", "t">>}
RawEntries == {Entry(l, n, msg) : l \in EntryLevels, n \in LoggerNames, msg \in Messages}

FieldLists ==
    { <<Field(<<"c", "o", "u", "n", "t">>, "Int64Type", 3, <<>>, Nil)>>,
      <<Field(<<"c", "h">>, "ReflectType", 0, <<>>, "chan")>> }

\* levels given to NewCloudwatchHook
HookLevels == {"info"}

\* states of the remote service before GetHook: its groups and the streams
\* (with their upload sequence tokens) of each group
RemoteStates ==
    { [groups |-> {}, streams |-> [k \in {} |-> NoToken]],
      [groups |-> {GroupName},
       streams |-> [k \in {<<GroupName, StreamName>>} |-> Token(0)]] }

(***************************************************************************)
(* State.                                                                  *)
(***************************************************************************)
VARIABLES
    AcceptedLevels,     \* ch.AcceptedLevels
    Async,              \* ch.Async
    nextSequenceToken,  \* ch.nextSequenceToken
    m,                  \* ch.m: the process holding it, or NoProc
    msgCache,           \* the global EntryQueue: its mutex and its list
    pushed,             \* the values given to PushBack, in order (element i has id i)
    popLog,             \* the results of Pop, in the order the calls returned; for
                        \* a Pop that found the list empty, the pushes made before it
    logGroups,          \* remote service: names of the log groups
    logStreams,         \* remote service: <<group, stream>> -> upload sequence token
    requests,           \* remote service: PutLogEvents calls received, with the answers
    initCalls,          \* remote service: the calls of the running GetHook, with their errors
    coreWrites,         \* wrapped Core: the bag of entries given to c.Core.Write
    hookpc,             \* position of the goroutine running GetHook
    pc,                 \* position of every thread and goroutine
    loc,                \* locals of every thread and goroutine
    returned,           \* what the last call of Write or cloudwatchWriter returned
    nWrites,            \* PikaCore.Write calls started
    nCallbacks,         \* cloudwatchWriter calls started
    thresholdLevel,     \* the level given to NewCloudwatchHook (Nil for a hook built
                        \* as a struct literal that leaves AcceptedLevels unset)
    coreLevel,          \* the lowest level the wrapped Core is enabled for
    events,             \* the log events the application has emitted, in order
    nSkipped,           \* events for which PikaCore.Check did not add the core
    nGetHooks           \* GetHook calls started

vars == <<AcceptedLevels, Async, nextSequenceToken, m, msgCache, pushed, popLog,
          logGroups, logStreams, requests, initCalls, coreWrites, hookpc, pc, loc,
          returned, nWrites, nCallbacks, thresholdLevel, coreLevel, events,
          nSkipped, nGetHooks>>

hookVars == <<AcceptedLevels, Async>>
queueVars == <<msgCache, pushed, popLog>>
remoteVars == <<logGroups, logStreams, requests, initCalls>>
countVars == <<nWrites, nCallbacks>>
\* what only the application and the logging framework change
envVars == <<thresholdLevel, coreLevel, events, nSkipped, nGetHooks>>

\* NewCloudwatchHook(groupName, streamName, isAsync, cfg, level)
NewCloudwatchHook(isAsync, level) ==
    /\ Async = isAsync
    /\ AcceptedLevels = LevelThreshold(level)
    /\ nextSequenceToken = NoToken
    /\ m = NoProc

\* the state before GetHook, but for the hook and the remote service: the
\* queue is empty, nothing has been logged, GetHook has just been called
InitRest ==
    /\ msgCache = [mu |-> NoProc, entries |-> <<>>]
    /\ pushed = <<>>
    /\ popLog = <<>>
    /\ requests = <<>>
    /\ initCalls = <<>>
    /\ coreWrites = EmptyBag
    /\ hookpc = "start"
    /\ pc = [p \in Procs |-> IF p \in Threads THEN "idle" ELSE "unborn"]
    /\ loc = [p \in Procs |-> NoLocals]
    /\ returned = NoRet
    /\ nWrites = 0
    /\ nCallbacks = 0
    /\ events = <<>>
    /\ nSkipped = 0
    /\ nGetHooks = 1

\* the remote service is in state r
InitRemote(r) == logGroups = r.groups /\ logStreams = r.streams

Init ==
    /\ \E isAsync \in BOOLEAN, level \in HookLevels :
          NewCloudwatchHook(isAsync, level) /\ thresholdLevel = level
    /\ \E r \in RemoteStates : InitRemote(r)
    /\ coreLevel = "debug"
    /\ InitRest

(***************************************************************************)
(* Callers.  The threads that are not inside a call are interchangeable:   *)
(* a new call runs on the first of them.                                   *)
(***************************************************************************)
Caller(t) ==
    /\ pc[t] = "idle"
    /\ \A u \in Threads : pc[u] = "idle" => u[2] >= t[2]

(***************************************************************************)
(* sync.Mutex.  A Lock and the statements up to the next access to shared  *)
(* state outside the mutex are one step: the step waits for the mutex.     *)
(***************************************************************************)
\* a Lock that does not wait
eqLockBroken(mu) == TRUE

\* eq.Lock() (the mutex of the EntryQueue) returns when nobody holds mu
eqLock(mu) == mu = NoProc

\* a sendEvent that does not wait for the hook's mutex
chLockBroken(mu) == TRUE

\* ch.m.Lock() (the mutex of the hook) returns when nobody holds mu
chLock(mu) == mu = NoProc

(***************************************************************************)
(* container/list                                                          *)
(***************************************************************************)
\* a queue that inserts at the front
ListPushFront(entries, elem) == <<elem>> \o entries

\* list.PushBack: a new element at the back
ListPushBack(entries, elem) == Append(entries, elem)

\* a Pop that leaves the element in the list
ListKeep(entries, elem) == entries

\* list.Remove(e): unlinks e when it is still an element of the list
ListRemove(entries, elem) == SelectSeq(entries, LAMBDA x : x.id # elem.id)

(***************************************************************************)
(* PikaCore.Write                                                          *)
(***************************************************************************)
\* the entry Write pushes and forwards: fmt.Sprintf of message and JSON
Enriched(entry, json) == [entry EXCEPT !.Message = EnrichMessage(entry.Message, json)]

\* a Write that ignores the error of json.Marshal
MarshalFailedIgnored(res) == FALSE

\* if err != nil { return err } after json.Marshal
MarshalFailed(res) == res.err

\* the call, the loop over the fields and json.Marshal; a Marshal error
\* returns at once, otherwise msgCache.Push(entry) (Lock, PushBack, Unlock).
\* The logger is built with the hook GetHook returned, so log calls start
\* after GetHook.
Write(t, entry, fields) ==
    /\ Caller(t)
    /\ hookpc = "ready"
    /\ nWrites' = nWrites + 1
    /\ LET res == Marshal(FieldsMap(fields, Len(fields)))
       IN IF MarshalFailed(res)
          THEN /\ returned' = [op |-> "Write", err |-> "ErrMarshal"]
               /\ UNCHANGED <<pc, loc, msgCache, pushed>>
          ELSE /\ eqLock(msgCache.mu)
               /\ msgCache' = [msgCache EXCEPT !.entries =
                                 ListPushBack(msgCache.entries,
                                     [id |-> Len(pushed) + 1,
                                      Value |-> Enriched(entry, res.json)])]
               /\ pushed' = Append(pushed, Enriched(entry, res.json))
               /\ loc' = [loc EXCEPT ![t] =
                            [NoLocals EXCEPT !.e = Enriched(entry, res.json),
                                             !.fields = fields,
                                             !.fieldsMap = FieldsMap(fields, Len(fields))]]
               /\ pc' = [pc EXCEPT ![t] = "core_write"]
               /\ UNCHANGED returned
    /\ UNCHANGED <<hookVars, envVars, nextSequenceToken, m, popLog, remoteVars,
                   coreWrites, hookpc, nCallbacks>>

\* results of the wrapped Core's Write
CoreErrors == {Nil, "ErrCore"}

\* return c.Core.Write(entry, fields)
WriteCore(t) ==
    /\ pc[t] = "core_write"
    /\ coreWrites' = coreWrites (+) SetToBag({loc[t].e})
    /\ \E err \in CoreErrors : returned' = [op |-> "Write", err |-> err]
    /\ loc' = [loc EXCEPT ![t] = NoLocals]
    /\ pc' = [pc EXCEPT ![t] = "idle"]
    /\ UNCHANGED <<hookVars, envVars, nextSequenceToken, m, queueVars, remoteVars,
                   hookpc, countVars>>

(***************************************************************************)
(* cloudwatchWriter, the callback GetHook returns.                         *)
(***************************************************************************)
\* the call and the level test: a level that is not accepted returns nil at
\* once.  Otherwise msgCache.Pop() up to eq.entries.Front(): on an empty
\* list Pop returns nil (and unlocks), else it holds the mutex and e.
cloudwatchWriter(t, e) ==
    /\ Caller(t)
    /\ hookpc = "ready"
    /\ nCallbacks' = nCallbacks + 1
    /\ IF ~isAcceptedLevel(AcceptedLevels, e.Level)
       THEN /\ returned' = [op |-> "Writer", err |-> Nil]
            /\ UNCHANGED <<pc, loc, msgCache, popLog>>
       ELSE /\ eqLock(msgCache.mu)
            /\ IF Len(msgCache.entries) = 0
               THEN /\ popLog' = Append(popLog, [elem |-> NoElem, seen |-> Len(pushed)])
                    /\ loc' = [loc EXCEPT ![t] = [NoLocals EXCEPT !.e = e]]
                    /\ pc' = [pc EXCEPT ![t] = "build"]
                    /\ UNCHANGED <<msgCache, returned>>
               ELSE /\ msgCache' = [msgCache EXCEPT !.mu = t]
                    /\ loc' = [loc EXCEPT ![t] =
                                 [NoLocals EXCEPT !.e = e, !.elem = msgCache.entries[1]]]
                    /\ pc' = [pc EXCEPT ![t] = "pop_remove"]
                    /\ UNCHANGED <<popLog, returned>>
    /\ UNCHANGED <<hookVars, envVars, nextSequenceToken, m, pushed, remoteVars,
                   coreWrites, hookpc, nWrites>>

\* eq.entries.Remove(e), the deferred Unlock, and return &entry; back in the
\* callback, which does e = *modifiedEntry
PopRemove(t) ==
    /\ pc[t] = "pop_remove"
    /\ msgCache' = [mu |-> NoProc, entries |-> ListRemove(msgCache.entries, loc[t].elem)]
    /\ popLog' = Append(popLog, [elem |-> loc[t].elem, seen |-> 0])
    /\ loc' = [loc EXCEPT ![t].e = loc[t].elem.Value]
    /\ pc' = [pc EXCEPT ![t] = "build"]
    /\ UNCHANGED <<hookVars, envVars, nextSequenceToken, m, pushed, remoteVars,
                   coreWrites, hookpc, returned, countVars>>

\* the PutLogEventsInput built for entry e with sequence token tok
\* (the event's Timestamp, the wall clock in milliseconds, is left out)
PutLogEventsInput(e, tok) ==
    [LogEvents |-> <<[Message |-> EventMessage(e)]>>,
     LogGroupName |-> GroupName,
     LogStreamName |-> StreamName,
     SequenceToken |-> tok]

\* the goroutine `go` starts: the next one that has not run yet
NewTask(g) ==
    /\ pc[g] = "unborn"
    /\ \A h \in Tasks : pc[h] = "unborn" => h[2] >= g[2]

\* event and params are built, params.SequenceToken being read from
\* ch.nextSequenceToken with no lock held; Async starts a goroutine on
\* sendEvent and returns nil, otherwise the thread itself enters sendEvent
WriterBuild(t) ==
    /\ pc[t] = "build"
    /\ LET params == PutLogEventsInput(loc[t].e, nextSequenceToken)
       IN IF Async
          THEN \E g \in Tasks :
                  /\ NewTask(g)
                  /\ pc' = [pc EXCEPT ![t] = "idle", ![g] = "se_lock"]
                  /\ loc' = [loc EXCEPT ![t] = NoLocals,
                                        ![g] = [NoLocals EXCEPT !.params = params]]
                  /\ returned' = [op |-> "Writer", err |-> Nil]
          ELSE /\ pc' = [pc EXCEPT ![t] = "se_lock"]
               /\ loc' = [loc EXCEPT ![t] = [NoLocals EXCEPT !.params = params]]
               /\ UNCHANGED returned
    /\ UNCHANGED <<hookVars, envVars, nextSequenceToken, m, queueVars, remoteVars,
                   coreWrites, hookpc, countVars>>

(***************************************************************************)
(* CloudwatchHook.sendEvent, run by a thread (synchronous) or a goroutine. *)
(***************************************************************************)
\* number of appends the remote service has accepted
Accepted == Cardinality({i \in 1..Len(requests) : requests[i].resp.err = Nil})

\* the remote service's PutLogEvents: it fails when the stream does not
\* exist and may fail for any other reason; an accepted append gives the
\* stream a new upload sequence token and returns it
PutLogEvents(p, params) ==
    \E ok \in BOOLEAN :
       LET key == <<params.LogGroupName, params.LogStreamName>>
           good == ok /\ key \in DOMAIN logStreams
           resp == IF good
                   THEN [err |-> Nil, NextSequenceToken |-> Token(Accepted + 1)]
                   ELSE [err |-> "ErrPut", NextSequenceToken |-> NoToken]
       IN /\ requests' = Append(requests, [params |-> params, resp |-> resp])
          /\ logStreams' = IF good
                           THEN [logStreams EXCEPT ![key] = resp.NextSequenceToken]
                           ELSE logStreams
          /\ loc' = [loc EXCEPT ![p].resp = resp]

\* ch.m.Lock() and resp, err := ch.svc.PutLogEvents(params)
sendEventPut(p) ==
    /\ pc[p] = "se_lock"
    /\ chLock(m)
    /\ m' = p
    /\ PutLogEvents(p, loc[p].params)
    /\ pc' = [pc EXCEPT ![p] = "se_ret"]
    /\ UNCHANGED <<hookVars, envVars, nextSequenceToken, queueVars, logGroups,
                   initCalls, coreWrites, hookpc, returned, countVars>>

\* a sendEvent that never records the returned token
TokenAfterStale(tok, resp) == tok

\* a sendEvent that records the answer's token before it tests err
TokenAfterUnchecked(tok, resp) == resp.NextSequenceToken

\* the token recorded after the answer resp, tok being the recorded one
TokenAfter(tok, resp) == IF resp.err # Nil THEN tok ELSE resp.NextSequenceToken

\* an Unlock placed after the err test: the error return keeps the mutex
chUnlockOnSuccess(p, resp) == IF resp.err # Nil THEN p ELSE NoProc

\* defer ch.m.Unlock(): the holder of ch.m after process p has returned from
\* sendEvent with the answer resp (the deferred call runs on both returns)
chUnlock(p, resp) == NoProc

\* a sendEvent that swallows the error
sendEventResultNil(resp) == Nil

\* what sendEvent returns after the answer resp: the error, or nil
sendEventResult(resp) == resp.err

\* the err test, ch.nextSequenceToken = resp.NextSequenceToken, the deferred
\* Unlock and the return: to cloudwatchWriter, which returns the result to
\* the framework, or the goroutine ends and the result is dropped
sendEventReturn(p) ==
    /\ pc[p] = "se_ret"
    /\ nextSequenceToken' = TokenAfter(nextSequenceToken, loc[p].resp)
    /\ m' = chUnlock(p, loc[p].resp)
    /\ pc' = [pc EXCEPT ![p] = IF p \in Threads THEN "idle" ELSE "done"]
    /\ loc' = [loc EXCEPT ![p] = NoLocals]
    /\ returned' = IF p \in Threads
                   THEN [op |-> "Writer", err |-> sendEventResult(loc[p].resp)]
                   ELSE returned
    /\ UNCHANGED <<hookVars, envVars, queueVars, remoteVars, coreWrites, hookpc, countVars>>

(***************************************************************************)
(* CloudwatchHook.GetHook: the initialisation, one remote call per step.   *)
(* hookpc is "ready" once cloudwatchWriter has been returned and "failed"  *)
(* once an error has been.                                                 *)
(***************************************************************************)
\* the LogGroups of DescribeLogGroups(LogGroupNamePrefix: prefix)
GroupsWithPrefix(prefix) == {g \in logGroups : IsPrefix(prefix, g)}

\* the LogStreams of DescribeLogStreams(group, LogStreamNamePrefix: prefix)
StreamsWithPrefix(group, prefix) ==
    {k \in DOMAIN logStreams : k[1] = group /\ IsPrefix(prefix, k[2])}

\* a GetHook that takes the last stream of the answer
LastStream(keys) == CHOOSE k \in keys : \A o \in keys \ {k} : StrLess(o[2], k[2])

\* resp.LogStreams[0]: the service lists the streams ordered by name
FirstStream(keys) == CHOOSE k \in keys : \A o \in keys \ {k} : StrLess(k[2], o[2])

\* a GetHook that goes on after a remote call whatever its error
IgnoreErr(err, next) == next

\* `if err != nil { return nil, err }` after a remote call of GetHook: where
\* GetHook is after the call, next being where it goes on without an error
CheckErr(err, next) == IF err # Nil THEN "failed" ELSE next

\* ch.svc = cloudwatchlogs.New(...) and DescribeLogGroups
DescribeLogGroups ==
    /\ hookpc = "start"
    /\ \E ok \in BOOLEAN :
          LET err == IF ok THEN Nil ELSE "ErrDescribeLogGroups"
          IN /\ initCalls' = Append(initCalls, [op |-> "DescribeLogGroups", err |-> err])
             /\ hookpc' = CheckErr(err, IF Cardinality(GroupsWithPrefix(GroupName)) < 1
                                        THEN "create_group"
                                        ELSE "describe_streams")
    /\ UNCHANGED <<hookVars, envVars, nextSequenceToken, m, queueVars, logGroups,
                   logStreams, requests, coreWrites, pc, loc, returned, countVars>>

\* CreateLogGroup: fails when the group exists already, or for any other reason
CreateLogGroup ==
    /\ hookpc = "create_group"
    /\ \E ok \in BOOLEAN :
          LET err == IF ok /\ GroupName \notin logGroups THEN Nil ELSE "ErrCreateLogGroup"
          IN /\ initCalls' = Append(initCalls, [op |-> "CreateLogGroup", err |-> err])
             /\ logGroups' = IF err = Nil THEN logGroups \cup {GroupName} ELSE logGroups
             /\ hookpc' = CheckErr(err, "describe_streams")
    /\ UNCHANGED <<hookVars, envVars, nextSequenceToken, m, queueVars, logStreams,
                   requests, coreWrites, pc, loc, returned, countVars>>

\* DescribeLogStreams: fails when the group does not exist, or for any other
\* reason; a listed stream gives its token and the callback is returned
DescribeLogStreams ==
    /\ hookpc = "describe_streams"
    /\ \E ok \in BOOLEAN :
          LET err == IF ok /\ GroupName \in logGroups THEN Nil ELSE "ErrDescribeLogStreams"
              found == IF err = Nil THEN StreamsWithPrefix(GroupName, StreamName) ELSE {}
          IN /\ initCalls' = Append(initCalls, [op |-> "DescribeLogStreams", err |-> err])
             /\ hookpc' = CheckErr(err, IF Cardinality(found) > 0
                                        THEN "ready"
                                        ELSE "create_stream")
             /\ nextSequenceToken' = IF hookpc' = "ready"
                                     THEN logStreams[FirstStream(found)]
                                     ELSE nextSequenceToken
    /\ UNCHANGED <<hookVars, envVars, m, queueVars, logGroups, logStreams, requests,
                   coreWrites, pc, loc, returned, countVars>>

\* CreateLogStream: the new stream has no sequence token
CreateLogStream ==
    /\ hookpc = "create_stream"
    /\ \E ok \in BOOLEAN :
          LET key == <<GroupName, StreamName>>
              err == IF ok /\ GroupName \in logGroups /\ key \notin DOMAIN logStreams
                     THEN Nil
                     ELSE "ErrCreateLogStream"
          IN /\ initCalls' = Append(initCalls, [op |-> "CreateLogStream", err |-> err])
             /\ logStreams' = IF err = Nil
                              THEN [k \in (DOMAIN logStreams) \cup {key} |->
                                      IF k = key THEN NoToken ELSE logStreams[k]]
                              ELSE logStreams
             /\ hookpc' = CheckErr(err, "ready")
    /\ UNCHANGED <<hookVars, envVars, nextSequenceToken, m, queueVars, logGroups,
                   requests, coreWrites, pc, loc, returned, countVars>>

(***************************************************************************)
(* The program.                                                            *)
(***************************************************************************)
\* a log call starts while the application has calls to make
WriteCall(t, entry, fields) == nWrites < MaxWrites /\ Write(t, entry, fields)

\* the framework invokes the callback, possibly while other calls run
WriterCall(t, e) == nCallbacks < MaxCallbacks /\ cloudwatchWriter(t, e)

Next ==
    \/ DescribeLogGroups
    \/ CreateLogGroup
    \/ DescribeLogStreams
    \/ CreateLogStream
    \/ \E t \in Threads, entry \in RawEntries, fields \in FieldLists :
          WriteCall(t, entry, fields)
    \/ \E t \in Threads : WriteCore(t)
    \/ \E t \in Threads, e \in RawEntries : WriterCall(t, e)
    \/ \E t \in Threads : PopRemove(t)
    \/ \E t \in Threads : WriterBuild(t)
    \/ \E p \in Procs : sendEventPut(p)
    \/ \E p \in Procs : sendEventReturn(p)

Spec == Init /\ [][Next]_vars

(***************************************************************************)
(* The program in synchronous mode when the framework invokes the callback *)
(* for one event at a time (log calls still run on both threads).          *)
(***************************************************************************)
\* positions inside cloudwatchWriter
WriterPcs == {"pop_remove", "build", "se_lock", "se_ret"}

NoWriterRunning == \A u \in Threads : pc[u] \notin WriterPcs

WriterCallSeq(t, e) ==
    /\ NoWriterRunning
    /\ nCallbacks < MaxSeqCallbacks
    /\ cloudwatchWriter(t, e)

InitSeq == Init /\ ~Async

NextSeq ==
    \/ DescribeLogGroups
    \/ CreateLogGroup
    \/ DescribeLogStreams
    \/ CreateLogStream
    \/ \E t \in Threads, entry \in RawEntries, fields \in FieldLists :
          WriteCall(t, entry, fields)
    \/ \E t \in Threads : WriteCore(t)
    \/ \E t \in Threads, e \in RawEntries : WriterCallSeq(t, e)
    \/ \E t \in Threads : PopRemove(t)
    \/ \E t \in Threads : WriterBuild(t)
    \/ \E p \in Threads : sendEventPut(p)
    \/ \E p \in Threads : sendEventReturn(p)

SpecSeq == InitSeq /\ [][NextSeq]_vars

(***************************************************************************)
(* One PikaCore.Write on fields of every type zap's constructors build.    *)
(***************************************************************************)
\* length of the field list of the log call
MaxFields == 2

FieldKeys == {<<"a">>, <<"b">>}

\* zapcore's field types for the integers of every width
IntegerTypes == {"Int64Type", "Int32Type", "Int16Type", "Int8Type",
                 "Uint64Type", "Uint32Type", "Uint16Type", "Uint8Type"}

\* fields as zap.String, zap.Int8 .. zap.Uint64, zap.Bool, zap.Duration and
\* zap.Reflect build them: Bool sets Integer to 1 or 0, the integer
\* constructors and Duration set Integer, Reflect sets Interface
ZapFields ==
    {Field(k, "StringType", 0, <<"x">>, Nil) : k \in FieldKeys}
    \cup {Field(k, ty, 7, <<>>, Nil) : k \in FieldKeys, ty \in IntegerTypes}
    \cup {Field(k, "BoolType", b, <<>>, Nil) : k \in FieldKeys, b \in {0, 1}}
    \cup {Field(k, "DurationType", 5, <<>>, Nil) : k \in FieldKeys}
    \cup {Field(k, "ReflectType", 0, <<>>, v) : k \in FieldKeys, v \in {"struct{}{}", "chan"}}

SeqsUpTo(S, n) == UNION {[1..i -> S] : i \in 0..n}

\* the first log call of the application, on any such fields
FieldsWrite(t, entry, fields) == nWrites = 0 /\ Write(t, entry, fields)

NextFields ==
    \/ DescribeLogGroups
    \/ CreateLogGroup
    \/ DescribeLogStreams
    \/ CreateLogStream
    \/ \E t \in Threads, entry \in RawEntries, fields \in SeqsUpTo(ZapFields, MaxFields) :
          FieldsWrite(t, entry, fields)
    \/ \E t \in Threads : WriteCore(t)

SpecFields == Init /\ [][NextFields]_vars

(***************************************************************************)
(* Log calls that go through PikaCore.Check: the logger calls Check on its *)
(* core with no CheckedEntry yet, and then Write on every core that Check  *)
(* added (CheckedEntry.Write); a nil CheckedEntry is not written at all.   *)
(***************************************************************************)
\* number of log calls of the application
MaxEvents == 2

\* zapcore's levels in zapcore's order (DebugLevel = -1 .. FatalLevel = 5)
ZapLevels == <<"debug", "info", "warn", "error", "dpanic", "panic", "fatal">>

ZapRank(l) == CHOOSE i \in 1..Len(ZapLevels) : ZapLevels[i] = l

\* c.Enabled(level): PikaCore has no Enabled of its own, the call goes to the
\* embedded (wrapped) Core, which is enabled from its lowest level upwards
Enabled(min, level) == ZapRank(level) >= ZapRank(min)

\* checked.AddCore(entry, core): the cores of the CheckedEntry, one more
AddCore(checked, core) == Append(checked, core)

\* a Check that adds the core whatever the level
CheckAlways(entry, checked) == AddCore(checked, "PikaCore")

\* PikaCore.Check
Check(entry, checked) ==
    IF Enabled(coreLevel, entry.Level) THEN AddCore(checked, "PikaCore") ELSE checked

\* levels the wrapped Core may be built with
CoreLevels == {"debug", "info"}

\* the application makes a log call (logger.Info(msg, fields...)) when the
\* logger has checked its previous one
Emit(entry, fields) ==
    /\ Len(events) < MaxEvents
    /\ Len(events) = nWrites + nSkipped
    /\ events' = Append(events, [entry |-> entry, fields |-> fields])
    /\ UNCHANGED <<hookVars, nextSequenceToken, m, queueVars, remoteVars, coreWrites,
                   hookpc, pc, loc, returned, countVars, thresholdLevel, coreLevel,
                   nSkipped, nGetHooks>>

\* the logger checks the event (Check on a nil CheckedEntry) and writes it:
\* PikaCore.Write when Check added the core, nothing otherwise
CheckedWrite(t) ==
    /\ nWrites + nSkipped < Len(events)
    /\ LET ev == events[nWrites + nSkipped + 1]
       IN IF "PikaCore" \in Range(Check(ev.entry, <<>>))
          THEN Write(t, ev.entry, ev.fields)
          ELSE /\ Caller(t)
               /\ nSkipped' = nSkipped + 1
               /\ UNCHANGED <<hookVars, nextSequenceToken, m, queueVars, remoteVars,
                              coreWrites, hookpc, pc, loc, returned, countVars,
                              thresholdLevel, coreLevel, events, nGetHooks>>

InitCheck ==
    /\ \E isAsync \in BOOLEAN, level \in HookLevels :
          NewCloudwatchHook(isAsync, level) /\ thresholdLevel = level
    /\ \E r \in RemoteStates : InitRemote(r)
    /\ coreLevel \in CoreLevels
    /\ InitRest

NextCheck ==
    \/ DescribeLogGroups
    \/ CreateLogGroup
    \/ DescribeLogStreams
    \/ CreateLogStream
    \/ \E entry \in RawEntries, fields \in FieldLists : Emit(entry, fields)
    \/ \E t \in Threads : CheckedWrite(t)
    \/ \E t \in Threads : WriteCore(t)

SpecCheck == InitCheck /\ [][NextCheck]_vars

(***************************************************************************)
(* Hooks of every threshold, and the hook with no accepted levels set, on  *)
(* events of every level.  The events are logged one after the other: the  *)
(* logger lets the core write the event and then calls the hook.           *)
(***************************************************************************)
\* a hook built as a struct literal that leaves AcceptedLevels unset:
\* &CloudwatchHook{GroupName: .., StreamName: .., Async: isAsync}
HookLiteral(isAsync) ==
    /\ Async = isAsync
    /\ AcceptedLevels = Nil
    /\ nextSequenceToken = NoToken
    /\ m = NoProc

\* an entry of every zapcore level
LevelEntries == {Entry(ZapLevels[i], n, msg) :
                    i \in 1..Len(ZapLevels), n \in LoggerNames, msg \in Messages}

\* field lists json.Marshal accepts
OkFieldLists == {fields \in FieldLists : ~Marshal(FieldsMap(fields, Len(fields))).err}

\* no log call and no callback is running on a thread
ThreadsIdle == \A t \in Threads : pc[t] = "idle"

\* the application logs its next event when the previous one has been
\* written and handed to the hook
EmitNext(entry, fields) ==
    /\ ThreadsIdle
    /\ nCallbacks = Len(events)
    /\ Emit(entry, fields)

\* the logger calls the hook for the event the core has just written
EventCallback(t) ==
    /\ ThreadsIdle
    /\ nCallbacks < nWrites + nSkipped
    /\ cloudwatchWriter(t, events[nCallbacks + 1].entry)

InitLevels ==
    /\ \/ \E isAsync \in BOOLEAN, level \in Range(ZapLevels) :
             NewCloudwatchHook(isAsync, level) /\ thresholdLevel = level
       \/ \E isAsync \in BOOLEAN : HookLiteral(isAsync) /\ thresholdLevel = Nil
    /\ \E r \in RemoteStates : InitRemote(r)
    /\ coreLevel = "debug"
    /\ InitRest

NextLevels ==
    \/ DescribeLogGroups
    \/ CreateLogGroup
    \/ DescribeLogStreams
    \/ CreateLogStream
    \/ \E entry \in LevelEntries, fields \in OkFieldLists : EmitNext(entry, fields)
    \/ \E t \in Threads : CheckedWrite(t)
    \/ \E t \in Threads : WriteCore(t)
    \/ \E t \in Threads : EventCallback(t)
    \/ \E t \in Threads : PopRemove(t)
    \/ \E t \in Threads : WriterBuild(t)
    \/ \E p \in Procs : sendEventPut(p)
    \/ \E p \in Procs : sendEventReturn(p)

SpecLevels == InitLevels /\ [][NextLevels]_vars

(***************************************************************************)
(* GetHook against every state of the remote service, names that only      *)
(* start with the configured names included, and GetHook called again      *)
(* between log calls.  The hook is synchronous and no core enriches.       *)
(***************************************************************************)
\* number of GetHook calls
MaxGetHooks == 2

\* a group and a stream whose names start with the configured names
OtherGroupName == GroupName \o <<"x">>
OtherStreamName == StreamName \o <<"x">>

\* the upload sequence token of a stream this program never appends to
OtherToken == Token(-1)

\* the streams of group g: the configured one (never written, or written)
\* and the one with the longer name, each may be missing
StreamSets(g) ==
    {[k \in ({<<g, StreamName>>} \cap own) \cup ({<<g, OtherStreamName>>} \cap other) |->
         IF k[2] = StreamName THEN tok ELSE OtherToken] :
       own \in SUBSET {<<g, StreamName>>}, other \in SUBSET {<<g, OtherStreamName>>},
       tok \in {NoToken, Token(0)}}

\* the states of the remote service that has the groups gs
RemoteStatesOf(gs) ==
    {[groups |-> gs, streams |-> a @@ b] :
       a \in IF GroupName \in gs THEN StreamSets(GroupName) ELSE {NoFieldsMap},
       b \in IF OtherGroupName \in gs
              THEN {NoFieldsMap, [k \in {<<OtherGroupName, StreamName>>} |-> OtherToken]}
              ELSE {NoFieldsMap}}

\* every state of the remote service over these names
AllRemoteStates == UNION {RemoteStatesOf(gs) : gs \in SUBSET {GroupName, OtherGroupName}}

\* the application calls GetHook again when the previous call has returned
GetHookAgain ==
    /\ hookpc \in {"ready", "failed"}
    /\ ThreadsIdle
    /\ nGetHooks < MaxGetHooks
    /\ nGetHooks' = nGetHooks + 1
    /\ hookpc' = "start"
    /\ initCalls' = <<>>
    /\ UNCHANGED <<hookVars, nextSequenceToken, m, queueVars, logGroups, logStreams,
                   requests, coreWrites, pc, loc, returned, countVars, thresholdLevel,
                   coreLevel, events, nSkipped>>

InitHook ==
    /\ \E level \in HookLevels : NewCloudwatchHook(FALSE, level) /\ thresholdLevel = level
    /\ \E r \in AllRemoteStates : InitRemote(r)
    /\ coreLevel = "debug"
    /\ InitRest

NextHook ==
    \/ DescribeLogGroups
    \/ CreateLogGroup
    \/ DescribeLogStreams
    \/ CreateLogStream
    \/ GetHookAgain
    \/ \E t \in Threads, e \in RawEntries : WriterCallSeq(t, e)
    \/ \E t \in Threads : WriterBuild(t)
    \/ \E p \in Threads : sendEventPut(p)
    \/ \E p \in Threads : sendEventReturn(p)

SpecHook == InitHook /\ [][NextHook]_vars

(***************************************************************************)
(* A single-threaded run: the application logs one event after the other,  *)
(* and for each event the logger lets PikaCore write it and then calls the *)
(* hook's callback with the event's raw entry.                             *)
(***************************************************************************)
\* the events of the run: two levels (one below the hook's threshold), two
\* messages
EventEntries ==
    {Entry(l, n, msg) : l \in EntryLevels, n \in LoggerNames,
                        msg \in Messages \cup {<<"s", "t", "o", "p">>}}

NextSingle ==
    \/ DescribeLogGroups
    \/ CreateLogGroup
    \/ DescribeLogStreams
    \/ CreateLogStream
    \/ \E entry \in EventEntries, fields \in FieldLists : EmitNext(entry, fields)
    \/ \E t \in Threads : CheckedWrite(t)
    \/ \E t \in Threads : WriteCore(t)
    \/ \E t \in Threads : EventCallback(t)
    \/ \E t \in Threads : PopRemove(t)
    \/ \E t \in Threads : WriterBuild(t)
    \/ \E p \in Procs : sendEventPut(p)
    \/ \E p \in Procs : sendEventReturn(p)

SpecSingle == Init /\ [][NextSingle]_vars

(***************************************************************************)
(* Detached mode under fair scheduling.  The Go scheduler runs every       *)
(* goroutine that can run, so a callback that has popped goes on to start  *)
(* its goroutine and a goroutine whose PutLogEvents has returned goes on   *)
(* to the end of sendEvent (weak fairness); sync.Mutex hands the mutex to  *)
(* a goroutine that keeps waiting for it (its starvation mode), so a       *)
(* goroutine that finds the mutex free again and again gets it (strong     *)
(* fairness).  Every PutLogEvents call returns, with or without an error.  *)
(***************************************************************************)
InitDetached == Init /\ Async

NextDetached ==
    \/ DescribeLogGroups
    \/ CreateLogGroup
    \/ DescribeLogStreams
    \/ CreateLogStream
    \/ \E t \in Threads, e \in EventEntries : WriterCall(t, e)
    \/ \E t \in Threads : WriterBuild(t)
    \/ \E g \in Tasks : sendEventPut(g)
    \/ \E g \in Tasks : sendEventReturn(g)

FairDetached ==
    /\ \A t \in Threads : WF_vars(WriterBuild(t))
    /\ \A g \in Tasks : SF_vars(sendEventPut(g))
    /\ \A g \in Tasks : WF_vars(sendEventReturn(g))

SpecDetached == InitDetached /\ [][NextDetached]_vars /\ FairDetached

(***************************************************************************)
(* Properties.                                                             *)
(***************************************************************************)
\* this step sends a PutLogEvents request to the remote service
Sends == Len(requests') = Len(requests) + 1

\* the request this step sends
NewRequest == requests'[Len(requests')]

LastRequest == requests[Len(requests)]

Succeeded(r) == r.resp.err = Nil

\* the levels the hook accepts, as a set
AcceptedSet == IF AcceptedLevels = Nil THEN Range(AllLevels) ELSE Range(AcceptedLevels)

\* C1: in synchronous mode with callbacks one at a time, the first request
\* after GetHook carries the token GetHook recorded, and a request that
\* follows a successful append carries the token that append returned (so
\* after N successful appends in a row the (N+1)-th request carries the
\* N-th answer's token).
C1_TokenChain ==
    [][Sends =>
         /\ Len(requests) = 0 => NewRequest.params.SequenceToken = nextSequenceToken
         /\ (Len(requests) > 0 /\ Succeeded(LastRequest)) =>
               NewRequest.params.SequenceToken = LastRequest.resp.NextSequenceToken]_vars

\* three requests, the first two accepted, each carrying its predecessor's token
C1_Witness ==
    /\ Len(requests) = 3
    /\ Succeeded(requests[1])
    /\ Succeeded(requests[2])
    /\ requests[2].params.SequenceToken = requests[1].resp.NextSequenceToken
    /\ requests[3].params.SequenceToken = requests[2].resp.NextSequenceToken
    /\ requests[3].params.SequenceToken # requests[2].params.SequenceToken

\* C2: every request sendEvent sends carries the token recorded in the hook
\* at the moment it is sent (whatever the interleaving of callbacks and
\* goroutines).
C2_SentTokenIsRecorded ==
    [][Sends => NewRequest.params.SequenceToken = nextSequenceToken]_vars

\* C3: every request sent carries the message of an entry (enriched and
\* queued by Write, or raw) whose level the hook accepts; none carries the
\* message of an entry below the threshold.
C3_NoRejectedLevelSent ==
    \A i \in 1..Len(requests) :
       \E e \in Range(pushed) \cup RawEntries :
          /\ e.Level \in AcceptedSet
          /\ requests[i].params.LogEvents[1].Message = EventMessage(e)

\* process p returns from sendEvent in this step
Returns(p) == pc[p] = "se_ret" /\ pc'[p] # "se_ret"

\* C4: a sendEvent whose PutLogEvents failed leaves the recorded token as it
\* was, in both modes; once GetHook has returned, the recorded token changes
\* only in a sendEvent whose PutLogEvents succeeded, to the returned token.
C4_FailedAppendKeepsToken ==
    [][/\ \A p \in Procs :
             (Returns(p) /\ loc[p].resp.err # Nil) =>
                nextSequenceToken' = nextSequenceToken
       /\ (hookpc = "ready" /\ nextSequenceToken' # nextSequenceToken) =>
             \E p \in Procs : /\ Returns(p)
                              /\ loc[p].resp.err = Nil
                              /\ nextSequenceToken' = loc[p].resp.NextSequenceToken]_vars

\* a sendEvent has returned an error after an earlier one recorded a token,
\* and the token is still recorded
C4_Witness ==
    /\ Len(requests) = 2
    /\ Succeeded(requests[1])
    /\ ~Succeeded(requests[2])
    /\ \A p \in Procs : pc[p] \in {"idle", "done", "unborn"}
    /\ nextSequenceToken = requests[1].resp.NextSequenceToken

\* the Pops that returned an entry, in the order they returned
NonNilPops == SelectSeq(popLog, LAMBDA r : r.elem.id # 0)

\* number of Pops among the first k that returned an entry
NonNilBefore(k) == Cardinality({j \in 1..k : popLog[j].elem.id # 0})

\* C5: with one consumer at a time, the i-th Pop that returns an entry
\* returns the i-th pushed entry Pi, and a Pop returns nil only when every
\* entry pushed before it has been popped (the (n+1)-th Pop after n pushes).
C5_PopOrderIsPushOrder ==
    /\ Len(NonNilPops) <= Len(pushed)
    /\ \A i \in 1..Len(NonNilPops) :
          /\ NonNilPops[i].elem.id = i
          /\ NonNilPops[i].elem.Value = pushed[i]
    /\ \A k \in 1..Len(popLog) :
          popLog[k].elem.id = 0 => NonNilBefore(k - 1) = popLog[k].seen

\* two different entries pushed, then three Pops: P1, P2, nil
C5_Witness ==
    /\ Len(pushed) = 2
    /\ pushed[1] # pushed[2]
    /\ Len(popLog) = 3
    /\ popLog[1].elem.Value = pushed[1]
    /\ popLog[2].elem.Value = pushed[2]
    /\ popLog[3].elem = NoElem
    /\ popLog[3].seen = 2

\* how often the element with this id is in the list / was returned by Pop
InQueue(id) ==
    Cardinality({k \in 1..Len(msgCache.entries) : msgCache.entries[k].id = id})

Popped(id) == Cardinality({k \in 1..Len(popLog) : popLog[k].elem.id = id})

\* C6: under every interleaving of the threads, each pushed entry is either
\* in the queue exactly once or was returned by exactly one Pop, and the
\* queue holds and Pop returns only entries that were pushed.
C6_NoEntryLostOrDuplicated ==
    /\ \A id \in 1..Len(pushed) : InQueue(id) + Popped(id) = 1
    /\ \A k \in 1..Len(msgCache.entries) :
          /\ msgCache.entries[k].id \in 1..Len(pushed)
          /\ msgCache.entries[k].Value = pushed[msgCache.entries[k].id]
    /\ \A k \in 1..Len(popLog) :
          popLog[k].elem.id # 0 =>
             /\ popLog[k].elem.id \in 1..Len(pushed)
             /\ popLog[k].elem.Value = pushed[popLog[k].elem.id]

\* two callbacks run at the same time, each holding the entry its Pop returned
C6_Witness ==
    \E t, u \in Threads :
       /\ t # u
       /\ pc[t] = "build"
       /\ pc[u] = "build"
       /\ loc[t].elem.id = 1
       /\ loc[u].elem.id = 2
       /\ msgCache.entries = <<>>

\* this step is the framework calling cloudwatchWriter
WriterCalled == nCallbacks' = nCallbacks + 1

\* C7: a callback goes on to Pop only for an accepted level; for a level that
\* is not accepted it returns nil at once and changes nothing: the queue is
\* not popped, no request is sent, the token and the mutexes are as before.
C7_RejectedLevelChangesNothing ==
    [][WriterCalled =>
         /\ \A t \in Threads : pc'[t] # pc[t] => loc'[t].e.Level \in AcceptedSet
         /\ (\A t \in Threads : pc'[t] = pc[t]) =>
               /\ returned' = [op |-> "Writer", err |-> Nil]
               /\ UNCHANGED <<msgCache, pushed, popLog, requests, logGroups, logStreams,
                              nextSequenceToken, m, coreWrites, pc, loc>>]_vars

\* the only callback so far, for a level the hook rejects, has returned nil
\* while an entry is queued: nothing was popped, sent or started
C7_Witness ==
    /\ nCallbacks = 1
    /\ returned = [op |-> "Writer", err |-> Nil]
    /\ EntryLevels \ AcceptedSet # {}
    /\ Len(msgCache.entries) > 0
    /\ popLog = <<>>
    /\ requests = <<>>
    /\ \A p \in Procs : pc[p] \in {"idle", "unborn"}

\* the params thread t hands to sendEvent in this step
BuiltParams(t) ==
    IF Async THEN loc'[CHOOSE g \in Tasks : pc[g] = "unborn" /\ pc'[g] # "unborn"].params
    ELSE loc'[t].params

\* C8: an accepted callback takes the head of the queue and removes it when
\* the queue is not empty, and keeps the raw entry (queue left empty)
\* otherwise; its request has exactly one event, with the message
\* "[<logger name>] <message>" of that entry, for the configured group and stream.
C8_RequestFromHeadOrRaw ==
    [][\A t \in Threads :
          /\ (pc[t] = "idle" /\ pc'[t] = "build") =>
                /\ msgCache.entries = <<>>
                /\ msgCache'.entries = <<>>
                /\ loc'[t].e \in RawEntries
          /\ (pc[t] = "idle" /\ pc'[t] = "pop_remove") => msgCache.entries # <<>>
          /\ (pc[t] = "pop_remove" /\ pc'[t] = "build") =>
                /\ loc'[t].e = Head(msgCache.entries).Value
                /\ msgCache'.entries = Tail(msgCache.entries)
          /\ (pc[t] = "build" /\ pc'[t] # "build") =>
                /\ Len(BuiltParams(t).LogEvents) = 1
                /\ BuiltParams(t).LogEvents[1].Message =
                      <<"[">> \o loc[t].e.LoggerName \o <<"]", " ">> \o loc[t].e.Message
                /\ BuiltParams(t).LogGroupName = GroupName
                /\ BuiltParams(t).LogStreamName = StreamName]_vars

\* a request was sent with the message of the entry Write had queued, and
\* another with the message of a raw entry
C8_Witness ==
    /\ Len(pushed) = 1
    /\ msgCache.entries = <<>>
    /\ Len(requests) = 2
    /\ requests[1].params.LogEvents[1].Message = EventMessage(pushed[1])
    /\ \E e \in RawEntries : requests[2].params.LogEvents[1].Message = EventMessage(e)

\* C9: in detached mode the callback returns nil when it has started the
\* goroutine, before the request is sent, and nothing the goroutine does
\* reaches a thread; in synchronous mode the callback returns only from
\* sendEvent, with the error (or nil) of its own PutLogEvents.
C9_ReturnByMode ==
    [][/\ \A t \in Threads :
             /\ (pc[t] = "build" /\ pc'[t] # "build") =>
                   IF Async
                   THEN /\ pc'[t] = "idle"
                        /\ returned' = [op |-> "Writer", err |-> Nil]
                        /\ \E g \in Tasks : pc[g] = "unborn" /\ pc'[g] = "se_lock"
                        /\ requests' = requests
                   ELSE pc'[t] = "se_lock" /\ returned' = returned
             /\ Returns(t) =>
                   /\ ~Async
                   /\ pc'[t] = "idle"
                   /\ returned' = [op |-> "Writer", err |-> loc[t].resp.err]
                   /\ \E i \in 1..Len(requests) :
                         requests[i] = [params |-> loc[t].params, resp |-> loc[t].resp]
       /\ \A g \in Tasks :
             Returns(g) => /\ returned' = returned
                           /\ \A t \in Threads : loc'[t] = loc[t] /\ pc'[t] = pc[t]]_vars

\* detached: both callbacks have returned nil, both goroutines have ended,
\* and an append failed
C9_Witness ==
    /\ Async
    /\ nCallbacks = 2
    /\ Len(requests) = 2
    /\ \E i \in 1..2 : ~Succeeded(requests[i])
    /\ \A g \in Tasks : pc[g] \in {"done", "unborn"}
    /\ \A t \in Threads : pc[t] = "idle"
    /\ returned = [op |-> "Writer", err |-> Nil]

\* this step is the application calling PikaCore.Write
WriteCalled == nWrites' = nWrites + 1

\* json.Marshal fails for these fields
SerializationFails(fields) == Marshal(FieldsMap(fields, Len(fields))).err

\* C10: a Write goes on to the push only when serialization succeeds, and
\* then pushes exactly one entry before the wrapped core's Write is called
\* with that entry; otherwise it returns the Marshal error at once, leaves
\* the queue as it was and does not call the wrapped core.
C10_MarshalErrorNoPush ==
    [][/\ WriteCalled =>
             /\ coreWrites' = coreWrites
             /\ (\A t \in Threads : pc'[t] = pc[t]) =>
                   /\ returned' = [op |-> "Write", err |-> "ErrMarshal"]
                   /\ UNCHANGED <<msgCache, pushed, loc>>
             /\ \A t \in Threads :
                   pc'[t] # pc[t] =>
                      /\ pc'[t] = "core_write"
                      /\ ~SerializationFails(loc'[t].fields)
                      /\ pushed' = Append(pushed, loc'[t].e)
                      /\ msgCache'.entries =
                            Append(msgCache.entries,
                                   [id |-> Len(pushed'), Value |-> loc'[t].e])
       /\ coreWrites' # coreWrites =>
             \E t \in Threads :
                /\ pc[t] = "core_write"
                /\ pc'[t] = "idle"
                /\ coreWrites' = coreWrites (+) SetToBag({loc[t].e})
                /\ BagIn(loc[t].e, SetToBag(Range(pushed)))
                /\ UNCHANGED <<msgCache, pushed>>
       /\ Len(pushed) =
             BagCardinality(coreWrites) + Cardinality({t \in Threads : pc[t] = "core_write"})
      ]_vars

\* one Write has pushed and forwarded its entry, then another has failed in
\* Marshal and returned the error
C10_Witness ==
    /\ Len(pushed) = 1
    /\ coreWrites = SetToBag({pushed[1]})
    /\ msgCache.entries # <<>>
    /\ nWrites = 2
    /\ \A t \in Threads : pc[t] = "idle"
    /\ returned = [op |-> "Write", err |-> "ErrMarshal"]

\* the value the stated conversion gives field f: its string, its integer
\* as an int64, whether its integer is non-zero, or its Interface
StatedValue(f) ==
    CASE f.Type = "StringType" ->
           [kind |-> "string", str |-> f.String, int |-> 0, bool |-> FALSE, iface |-> Nil]
      [] f.Type \in IntegerTypes ->
           [kind |-> "int64", str |-> <<>>, int |-> f.Integer, bool |-> FALSE, iface |-> Nil]
      [] f.Type = "BoolType" ->
           [kind |-> "bool", str |-> <<>>, int |-> 0, bool |-> (f.Integer # 0), iface |-> Nil]
      [] OTHER ->
           [kind |-> "interface", str |-> <<>>, int |-> 0, bool |-> FALSE, iface |-> f.Interface]

\* the last field of the list that has this key
LastWithKey(fields, k) ==
    fields[CHOOSE i \in 1..Len(fields) :
              /\ fields[i].Key = k
              /\ \A j \in (i + 1)..Len(fields) : fields[j].Key # k]

\* C11: the map Write builds has the keys of the fields, and the value of a
\* key is the stated conversion of the last field with that key: a string
\* field gives its string, a field of any integer type (8 and 16 bits wide
\* too) its int64, a boolean field whether its integer is truthy, any other
\* field its Interface.
C11_FieldConversion ==
    \A t \in Threads :
       pc[t] = "core_write" =>
          /\ DOMAIN loc[t].fieldsMap = {loc[t].fields[i].Key : i \in 1..Len(loc[t].fields)}
          /\ \A k \in DOMAIN loc[t].fieldsMap :
                loc[t].fieldsMap[k] = StatedValue(LastWithKey(loc[t].fields, k))

\* the events the logger has checked
Handled == 1..(nWrites + nSkipped)

\* the checked events whose level the wrapped core is enabled for
EnabledEvents == {k \in Handled : ZapRank(events[k].entry.Level) >= ZapRank(coreLevel)}

\* the entry Write pushes and forwards for event ev
EnrichedEvent(ev) ==
    [ev.entry EXCEPT !.Message =
        ev.entry.Message \o <<" ">> \o Marshal(FieldsMap(ev.fields, Len(ev.fields))).json]

\* C12 as stated: once every log call has returned, the wrapped core has been
\* given the entry of every event, those of a level that is not enabled
\* included (without enrichment).
C12_DisabledStillForwarded ==
    (Len(events) = nWrites + nSkipped /\ \A t \in Threads : pc[t] = "idle") =>
       \A k \in Handled \ EnabledEvents : BagIn(events[k].entry, coreWrites)

\* C12 amended: for an event whose level is not enabled Check leaves the
\* CheckedEntry as it was and PikaCore.Write is not called: nothing is
\* enriched, nothing is pushed and the wrapped core is not given the entry.
\* Write runs for exactly the enabled events, and the wrapped core is given
\* only the enriched entries Write pushed.
C12_DisabledNotForwarded ==
    /\ nWrites = Cardinality(EnabledEvents)
    /\ nSkipped = Cardinality(Handled \ EnabledEvents)
    /\ Len(pushed) <= Cardinality({k \in EnabledEvents : ~SerializationFails(events[k].fields)})
    /\ \A k \in 1..Len(pushed) :
          \E j \in EnabledEvents : pushed[k] = EnrichedEvent(events[j])
    /\ \A e \in BagToSet(coreWrites) : e \in Range(pushed)
    /\ \A k \in Handled \ EnabledEvents :
          /\ ~BagIn(events[k].entry, coreWrites)
          /\ events[k].entry \notin Range(pushed)

\* an enabled event has been enriched, pushed and forwarded, and an event of
\* a level that is not enabled has been dropped by Check
C12_Witness ==
    /\ Len(events) = 2
    /\ nWrites = 1
    /\ nSkipped = 1
    /\ Len(pushed) = 1
    /\ BagCardinality(coreWrites) = 1
    /\ \A t \in Threads : pc[t] = "idle"

\* the sublist of Debug, Info, Warn, Error, Fatal, Panic from each level on
SublistFrom ==
    [debug |-> <<"debug", "info", "warn", "error", "fatal", "panic">>,
     info  |-> <<"info", "warn", "error", "fatal", "panic">>,
     warn  |-> <<"warn", "error", "fatal", "panic">>,
     error |-> <<"error", "fatal", "panic">>,
     fatal |-> <<"fatal", "panic">>,
     panic |-> <<"panic">>]

\* the callback called in this step goes on to Pop (it does not return at once)
Proceeds == \E t \in Threads : pc'[t] # pc[t]

\* the level of the event the callback is called for in this step
CallbackLevel == events[nCallbacks + 1].entry.Level

\* C13: a hook built by NewCloudwatchHook with one of the six levels L has as
\* its accepted levels the sublist of Debug, Info, Warn, Error, Fatal, Panic
\* from L to Panic, and its callback goes on for an event exactly when the
\* event's level is in that sublist.
C13_ThresholdSublist ==
    [][(thresholdLevel \in DOMAIN SublistFrom) =>
         /\ AcceptedLevels = SublistFrom[thresholdLevel]
         /\ WriterCalled =>
               (Proceeds <=> CallbackLevel \in Range(SublistFrom[thresholdLevel]))]_vars

\* a hook built with Fatal has sent a Panic event after it ignored an Error event
C13_Witness ==
    /\ thresholdLevel = "fatal"
    /\ Len(events) = 2
    /\ events[1].entry.Level = "error"
    /\ events[2].entry.Level = "panic"
    /\ nCallbacks = 2
    /\ Len(requests) = 1
    /\ Len(popLog) = 1

\* Debug, Info, Warn, Error, Fatal, Panic
SixLevels == {"debug", "info", "warn", "error", "fatal", "panic"}

TargetKey == <<GroupName, StreamName>>

\* GetHook returns the callback in this step
GetHookSucceeds == hookpc # "ready" /\ hookpc' = "ready"

\* C14: whatever groups and streams the remote service has, when GetHook
\* returns the callback a group named exactly GroupName exists, a stream
\* named exactly StreamName exists in it, and the recorded token is that
\* stream's token (nil for a stream GetHook has just created).
C14_SuccessMeansExactTarget ==
    [][GetHookSucceeds =>
         /\ GroupName \in logGroups'
         /\ TargetKey \in DOMAIN logStreams'
         /\ nextSequenceToken' = logStreams'[TargetKey]]_vars

\* the configured group exists and has the configured stream
TargetExists == GroupName \in logGroups /\ TargetKey \in DOMAIN logStreams

\* the remote call GetHook makes in this step
InitCallMade == Len(initCalls') = Len(initCalls) + 1

NewInitCall == initCalls'[Len(initCalls')]

\* C15: while the configured group and stream exist, a GetHook (the first
\* or a later one, with appends in between) makes no CreateLogGroup and no
\* CreateLogStream call, leaves the groups and the streams as they are, and
\* when it returns the callback the recorded token is the token the stream
\* has at that moment.
C15_InitIdempotent ==
    [][TargetExists =>
         /\ InitCallMade => NewInitCall.op \in {"DescribeLogGroups", "DescribeLogStreams"}
         /\ hookpc' \notin {"create_group", "create_stream"}
         /\ logGroups' = logGroups
         /\ DOMAIN logStreams' = DOMAIN logStreams
         /\ GetHookSucceeds => /\ nextSequenceToken' = logStreams[TargetKey]
                               /\ logStreams' = logStreams]_vars

\* the second GetHook has returned the callback with two describe calls,
\* after an append on the stream the first GetHook found; a stream with a
\* longer name exists too, and the recorded token is the append's
C15_Witness ==
    /\ nGetHooks = 2
    /\ hookpc = "ready"
    /\ Len(initCalls) = 2
    /\ Len(requests) = 1
    /\ Succeeded(requests[1])
    /\ requests[1].params.SequenceToken = Token(0)
    /\ <<GroupName, OtherStreamName>> \in DOMAIN logStreams
    /\ nextSequenceToken = requests[1].resp.NextSequenceToken
    /\ logStreams[TargetKey] = nextSequenceToken

\* C16: a GetHook whose remote call fails returns the error: it makes no
\* remote call after the failed one, makes no call twice, leaves the remote
\* service and the recorded token as the failed call left them, and gives
\* no callback (the callback is called only after a GetHook without error).
C16_InitFailureStops ==
    [][/\ \A i \in 1..(Len(initCalls') - 1) : initCalls'[i].err = Nil
       /\ \A i, j \in 1..Len(initCalls') : i # j => initCalls'[i].op # initCalls'[j].op
       /\ (InitCallMade /\ NewInitCall.err # Nil) =>
             /\ hookpc' = "failed"
             /\ UNCHANGED <<logGroups, logStreams, requests, nextSequenceToken>>
       /\ hookpc' = "failed" => initCalls'[Len(initCalls')].err # Nil
       /\ hookpc = "failed" =>
             /\ UNCHANGED <<logGroups, logStreams, requests, nextSequenceToken>>
             /\ ~InitCallMade
             /\ hookpc' = "failed" \/ nGetHooks' = nGetHooks + 1
       /\ WriterCalled => (hookpc = "ready" /\ \A i \in 1..Len(initCalls) : initCalls[i].err = Nil)
      ]_vars

\* GetHook has created the group and then failed in DescribeLogStreams: the
\* group stays, no stream was created, no callback was given
C16_Witness ==
    /\ hookpc = "failed"
    /\ Len(initCalls) = 3
    /\ initCalls[2] = [op |-> "CreateLogGroup", err |-> Nil]
    /\ initCalls[3] = [op |-> "DescribeLogStreams", err |-> "ErrDescribeLogStreams"]
    /\ GroupName \in logGroups
    /\ TargetKey \notin DOMAIN logStreams
    /\ nCallbacks = 0

\* the processes that have sent PutLogEvents and not yet recorded the token
\* (or returned the error)
Appending == {p \in Procs : pc[p] = "se_ret"}

\* at most one process is appending, and it holds the hook's mutex
OneAppender ==
    /\ Cardinality(Appending) <= 1
    /\ \A p \in Appending : m = p
    /\ Appending = {} => m = NoProc

\* C17: in both modes at most one thread or goroutine is between sending
\* PutLogEvents and recording the returned token, and it holds the hook's
\* mutex; a request is sent only by a process that takes the free mutex in
\* that step (a goroutine of detached mode takes the same mutex as a thread
\* of synchronous mode); once GetHook has returned, the recorded token
\* changes only in the step in which the holder of the mutex releases it.
C17_AppendsExclusive ==
    [][/\ OneAppender
       /\ OneAppender'
       /\ Sends => /\ m = NoProc
                   /\ \E p \in Procs : /\ pc[p] = "se_lock"
                                        /\ pc'[p] = "se_ret"
                                        /\ m' = p
                                        /\ p \in (IF Async THEN Tasks ELSE Threads)
       /\ (hookpc = "ready" /\ nextSequenceToken' # nextSequenceToken) =>
             \E p \in Procs : m = p /\ pc[p] = "se_ret" /\ pc'[p] # "se_ret" /\ m' = NoProc
      ]_vars

\* detached: one goroutine holds the mutex between its PutLogEvents and the
\* token update while the other waits for the mutex
C17_Witness ==
    /\ Async
    /\ \E g, h \in Tasks :
          /\ pc[g] = "se_ret"
          /\ m = g
          /\ pc[h] = "se_lock"
    /\ Len(requests) = 1

\* the first n events are of accepted levels and their fields serialize
AllAccepted(n) ==
    \A k \in 1..n : /\ events[k].entry.Level \in AcceptedSet
                     /\ ~SerializationFails(events[k].fields)

\* "[logger] message fieldsJSON" of event k
EventRequestMessage(k) ==
    <<"[">> \o events[k].entry.LoggerName \o <<"]", " ">> \o events[k].entry.Message
       \o <<" ">> \o Marshal(FieldsMap(events[k].fields, Len(events[k].fields))).json

\* C18: in a single-threaded run in which every event so far had an accepted
\* level and serializable fields, the k-th Pop returns the entry pushed for
\* the k-th event, the queue is empty once the callback of the last event
\* has popped, and the k-th callback's request carries "[logger] message
\* fieldsJSON" of the k-th event: in synchronous mode that is the k-th
\* request sent, in detached mode the request of the k-th goroutine.
C18_SingleThreadCorrespondence ==
    AllAccepted(Len(events)) =>
       /\ Len(popLog) <= Len(events)
       /\ \A k \in 1..Len(popLog) :
             /\ popLog[k].elem.id = k
             /\ popLog[k].elem.Value.Message =
                   events[k].entry.Message \o <<" ">>
                      \o Marshal(FieldsMap(events[k].fields, Len(events[k].fields))).json
       /\ (nCallbacks = Len(events) /\ \A t \in Threads : pc[t] # "pop_remove") =>
             msgCache.entries = <<>>
       /\ ~Async =>
             /\ Len(requests) <= Len(events)
             /\ \A k \in 1..Len(requests) :
                   /\ Len(requests[k].params.LogEvents) = 1
                   /\ requests[k].params.LogEvents[1].Message = EventRequestMessage(k)
       /\ Async =>
             /\ \A g \in Tasks :
                   pc[g] \in {"se_lock", "se_ret"} =>
                      loc[g].params.LogEvents = <<[Message |-> EventRequestMessage(g[2])]>>
             /\ \A i \in 1..Len(requests) :
                   \E k \in 1..Len(events) :
                      requests[i].params.LogEvents = <<[Message |-> EventRequestMessage(k)]>>

\* synchronous: two events with different messages, both accepted, each
\* written and then sent with its own message, and the queue is empty
C18_Witness ==
    /\ ~Async
    /\ Len(events) = 2
    /\ events[1].entry.Message # events[2].entry.Message
    /\ AllAccepted(2)
    /\ Len(requests) = 2
    /\ requests[1].params.LogEvents[1].Message = EventRequestMessage(1)
    /\ requests[2].params.LogEvents[1].Message = EventRequestMessage(2)
    /\ msgCache.entries = <<>>
    /\ ThreadsIdle

\* the goroutines that have sent their request
HaveSent == {g \in Tasks : pc[g] \in {"se_ret", "done"}}

\* the goroutines that have been started
Started == {g \in Tasks : pc[g] # "unborn"}

\* C19: in detached mode every accepted callback (each calls Pop once)
\* starts one goroutine, every started goroutine gets the hook's mutex and
\* sends its request, once, whether earlier appends failed or not, and the
\* mutex is released after every append: in the end there are as many
\* requests as accepted callbacks.
C19_DetachedAppendsSent ==
    /\ \A t \in Threads : (pc[t] = "build") ~> (pc[t] = "idle")
    /\ \A g \in Tasks : (pc[g] = "se_lock") ~> (pc[g] = "se_ret")
    /\ \A g \in Tasks : (pc[g] = "se_ret") ~> (pc[g] = "done" /\ m # g)
    /\ \A n \in 1..MaxCallbacks : (Len(popLog) = n) ~> (Len(requests) >= n)
    /\ [](Len(requests) = Cardinality(HaveSent))
    /\ [](Cardinality(Started) + Cardinality({t \in Threads : pc[t] = "build"}) = Len(popLog))
    /\ [](Len(requests) <= Len(popLog))

\* both goroutines have ended; the first append failed, the second was sent
\* all the same and accepted, and the mutex is free
C19_Witness ==
    /\ Async
    /\ \A g \in Tasks : pc[g] = "done"
    /\ Len(popLog) = MaxCallbacks
    /\ Len(requests) = MaxCallbacks
    /\ ~Succeeded(requests[1])
    /\ Succeeded(requests[Len(requests)])
    /\ m = NoProc

====
